---------------------------- MODULE Spec2Model ----------------------------
(***************************************************************************)
(* N-Queens solution counter (src/DFS.py, src/Genetic.py).                 *)
(*                                                                         *)
(* The module holds three state machines over one set of variables:        *)
(*   Spec     one or more calls of count_n_queens_parallel(n): the pool,   *)
(*            its half-tasks, the join of pool.map, the central column and *)
(*            the returned total;                                          *)
(*   BTSpec   one run of worker((n, col)), the recursion of backtrack      *)
(*            unfolded into an explicit call stack, one step per call,     *)
(*            loop iteration and return;                                   *)
(*   JitSpec  the board mask (1 << n) - 1 as the @njit-compiled backtrack  *)
(*            of src/Genetic.py computes it, on 64-bit machine integers.   *)
(* Each specification leaves the variables of the other two untouched.     *)
(***************************************************************************)
EXTENDS Integers, Sequences, FiniteSets, TLC

VARIABLES
    pc,       \* where the current call of count_n_queens_parallel stands
    n,        \* the argument n of the current call
    nproc,    \* num_processes = cpu_count() of the current call
    task,     \* task[c+1]: state of the half-task (n, c) inside pool.map
    results,  \* results[c+1]: what worker((n, c)) sent back (0 until then)
    total,    \* total_solutions
    central,  \* central_count
    prev,     \* <<n, total>> of the call that returned last, or <<>>
    bn,       \* BTSpec: board size of the run
    bcol,     \* BTSpec: first-queen column of the run
    stack,    \* BTSpec: the frames of the nested backtrack calls
    ret,      \* BTSpec: value handed back by the call that returned last
    bpc,      \* BTSpec: "call" | "run" | "done"
    jn,       \* JitSpec: board size
    jpc,      \* JitSpec: "start" | "masked"
    jmask     \* JitSpec: bits of the int64 holding (1 << n) - 1

callvars == <<pc, n, nproc, task, results, total, central, prev>>
btvars   == <<bn, bcol, stack, ret, bpc>>
jitvars  == <<jn, jpc, jmask>>
vars     == <<pc, n, nproc, task, results, total, central, prev,
              bn, bcol, stack, ret, bpc, jn, jpc, jmask>>

(***************************************************************************)
(* Bounds of the model.                                                    *)
(***************************************************************************)
MaxN     == 8   \* largest board size passed to count_n_queens_parallel
MinusN   == 3   \* the negative arguments tried are -MinusN .. -1
MaxProcs == 2   \* cpu_count() ranges over 1 .. MaxProcs
MaxBoard == 7   \* largest board size of a stepped worker run

(***************************************************************************)
(* Python's integer operators on unbounded two's-complement integers.      *)
(* \div and % are floor division and the non-negative remainder, as //     *)
(* and % are in Python.                                                    *)
(***************************************************************************)
RECURSIVE Pow2(_)
Pow2(k) == IF k = 0 THEN 1 ELSE 2 * Pow2(k - 1)

Shl(a, k) == a * Pow2(k)          \* a << k, k >= 0
Shr(a, k) == a \div Pow2(k)       \* a >> k, k >= 0 (arithmetic)
BitNot(a) == -a - 1               \* ~a

RECURSIVE And(_, _)
And(a, b) ==                      \* a & b
    IF a = 0 \/ b = 0 THEN 0
    ELSE IF a = -1 THEN b
    ELSE IF b = -1 THEN a
    ELSE (a % 2) * (b % 2) + 2 * And(a \div 2, b \div 2)

RECURSIVE Or(_, _)
Or(a, b) ==                       \* a | b
    IF a = 0 THEN b
    ELSE IF b = 0 THEN a
    ELSE IF a = -1 \/ b = -1 THEN -1
    ELSE (IF a % 2 = 1 \/ b % 2 = 1 THEN 1 ELSE 0) + 2 * Or(a \div 2, b \div 2)

(***************************************************************************)
(* backtrack (src/DFS.py 5-33), as a recursive operator.  BoardMask is     *)
(* (1 << n) - 1, Available line 21, LowBit line 24, and Loop the while     *)
(* loop of lines 23-32 with its running count.                             *)
(***************************************************************************)
BoardMask(nn) == Shl(1, nn) - 1

Available(nn, cols, majors, minors) ==
    And(BitNot(Or(Or(cols, majors), minors)), BoardMask(nn))

LowBit(available_positions) == And(available_positions, -available_positions)

\* a slip: the recursive call is made with row as it is
NextRowStuck(row) == row

NextRow(row) == row + 1                                       \* line 28

NextCols(cols, position) == Or(cols, position)                \* line 29

\* a slip: the major diagonals are not moved on to the next row
NextMajorsUnshifted(majors, position) == Or(majors, position)

NextMajors(majors, position) == Shl(Or(majors, position), 1)  \* line 30

NextMinors(minors, position) == Shr(Or(minors, position), 1)  \* line 31

BaseCase(nn, row) == row = nn

RECURSIVE backtrack(_, _, _, _, _)
RECURSIVE Loop(_, _, _, _, _, _, _)
Loop(nn, row, cols, majors, minors, available_positions, count) ==
    IF available_positions = 0 THEN count
    ELSE LET position == LowBit(available_positions)
         IN  Loop(nn, row, cols, majors, minors,
                  available_positions - position,
                  count + backtrack(nn, NextRow(row),
                                    NextCols(cols, position),
                                    NextMajors(majors, position),
                                    NextMinors(minors, position)))

backtrack(nn, row, cols, majors, minors) ==
    IF BaseCase(nn, row) THEN 1
    ELSE Loop(nn, row, cols, majors, minors,
              Available(nn, cols, majors, minors), 0)

(***************************************************************************)
(* worker (src/DFS.py 35-49): args is the pair <<n, col>>.                 *)
(***************************************************************************)
\* a slip: the first queen is not entered in cols
SeedColsEmpty(col) == 0

SeedCols(col) == Shl(1, col)                 \* position

SeedMajors(col) == Shl(Shl(1, col), 1)       \* position << 1

\* a slip: the first queen's minor diagonal is not moved on to row 1
SeedMinorsUnshifted(col) == Shl(1, col)

SeedMinors(col) == Shr(Shl(1, col), 1)       \* position >> 1

worker(args) ==
    LET nn  == args[1]
        col == args[2]
    IN  backtrack(nn, 1, SeedCols(col), SeedMajors(col), SeedMinors(col))


(***************************************************************************)
(* count_n_queens_parallel (src/DFS.py 51-81; count_solutions of           *)
(* src/Genetic.py 54-82 is the same code).                                 *)
(*                                                                         *)
(* pool.map(worker, args) puts one task per element of args on the pool's  *)
(* queue; the pool's processes take them in order, at most num_processes   *)
(* at a time, and finish them in any order.  A task ends by sending its    *)
(* result back, by raising (the exception is sent back in place of the     *)
(* result), or with its process killed, in which case nothing is sent back *)
(* and the pool starts a fresh process in its place.  pool.map returns     *)
(* when every task has sent something back: the list of results, or the    *)
(* exception of a task that raised.  For len(args) <= 4 * num_processes,   *)
(* which the bounds keep, map hands the tasks out one by one.              *)
(***************************************************************************)
Half(nn) == nn \div 2                                  \* line 62

Args(nn) ==                                            \* line 65
    [i \in 1 .. (IF Half(nn) > 0 THEN Half(nn) ELSE 0) |-> <<nn, i - 1>>]

RECURSIVE SumSeq(_)
SumSeq(s) == IF s = <<>> THEN 0 ELSE Head(s) + SumSeq(Tail(s))   \* sum(results)

\* a slip: the mirror images are not counted
MirroredOnce(rs) == SumSeq(rs)

Mirrored(rs) == SumSeq(rs) * 2                         \* line 72

Running == {i \in DOMAIN task : task[i] = "running"}
Queued  == {i \in DOMAIN task : task[i] = "queued"}

\* a slip: going on as soon as no task is running (as with map_async and
\* no wait for the tasks still queued)
MapJoinedIdle == \A i \in DOMAIN task : task[i] # "running"

\* pool.map has every result and returns the list (line 71)
MapJoined == \A i \in DOMAIN task : task[i] = "done"

\* every task has sent something back and one of them sent an exception
MapRaises ==
    /\ \A i \in DOMAIN task : task[i] \in {"done", "raised"}
    /\ \E i \in DOMAIN task : task[i] = "raised"

\* lines 61-71: a call begins; the pool is created and map queues the tasks
Call(k, p) ==
    /\ pc \in {"idle", "returned", "failed"}
    /\ prev' = IF pc = "returned" THEN <<n, total>> ELSE prev
    /\ n' = k
    /\ nproc' = p
    /\ total' = 0
    /\ central' = 0
    /\ task' = [i \in DOMAIN Args(k) |-> "queued"]
    /\ results' = [i \in DOMAIN Args(k) |-> 0]
    /\ pc' = "map"

\* a free pool process takes the next task of the queue
StartTask ==
    /\ pc = "map"
    /\ Queued # {}
    /\ Cardinality(Running) < nproc
    /\ LET i == CHOOSE j \in Queued : \A m \in Queued : j <= m
       IN  task' = [task EXCEPT ![i] = "running"]
    /\ UNCHANGED <<pc, n, nproc, results, total, central, prev>>

\* worker(a) for every task the bounds allow, evaluated once
WorkerTable ==
    [a \in {<<k, c>> : k \in 0 .. MaxN, c \in 0 .. MaxN} |->
        IF a[2] < Half(a[1]) THEN worker(a) ELSE 0]

\* the process runs worker(args[i]) to its end and sends the count back
FinishTask(i) ==
    /\ pc = "map"
    /\ task[i] = "running"
    /\ task' = [task EXCEPT ![i] = "done"]
    /\ results' = [results EXCEPT ![i] = WorkerTable[Args(n)[i]]]
    /\ UNCHANGED <<pc, n, nproc, total, central, prev>>

\* worker(args[i]) raises (MemoryError, RecursionError, ...)
RaiseTask(i) ==
    /\ pc = "map"
    /\ task[i] = "running"
    /\ task' = [task EXCEPT ![i] = "raised"]
    /\ UNCHANGED <<pc, n, nproc, results, total, central, prev>>

\* the process running task i is killed (a crash, the OOM killer)
KillWorker(i) ==
    /\ pc = "map"
    /\ task[i] = "running"
    /\ task' = [task EXCEPT ![i] = "lost"]
    /\ UNCHANGED <<pc, n, nproc, results, total, central, prev>>

\* lines 71-72: map returns, the sum is doubled, the pool is closed
MapReturn ==
    /\ pc = "map"
    /\ MapJoined
    /\ total' = total + Mirrored(results)
    /\ pc' = "joined"
    /\ UNCHANGED <<n, nproc, task, results, central, prev>>

\* line 71: map re-raises a task's exception; the call ends with it
MapRaise ==
    /\ pc = "map"
    /\ MapRaises
    /\ pc' = "failed"
    /\ UNCHANGED <<n, nproc, task, results, total, central, prev>>

\* lines 75-78: n is odd; 1 << central_col raises ValueError for a negative
\* central_col, otherwise the central backtrack run begins
CentralStart ==
    /\ pc = "joined"
    /\ n % 2 = 1
    /\ pc' = IF Half(n) < 0 THEN "failed" ELSE "central"
    /\ UNCHANGED <<n, nproc, task, results, total, central, prev>>

CentralCount(nn) ==                                    \* line 78
    backtrack(nn, 1, SeedCols(Half(nn)), SeedMajors(Half(nn)),
              SeedMinors(Half(nn)))

\* the call as a function of n, its tasks run one after the other: the
\* total, or "ValueError" where 1 << central_col raises
count_n_queens_parallel(nn) ==
    IF nn % 2 = 1 /\ Half(nn) < 0 THEN "ValueError"
    ELSE Mirrored([i \in DOMAIN Args(nn) |-> worker(Args(nn)[i])])
         + (IF nn % 2 = 1 THEN CentralCount(nn) ELSE 0)

\* CentralCount(k) for every odd k the bounds allow, evaluated once
CentralTable ==
    [k \in 0 .. MaxN |-> IF k % 2 = 1 THEN CentralCount(k) ELSE 0]

\* lines 78-81: the central run ends, its count is added, the call returns
CentralDone ==
    /\ pc = "central"
    /\ central' = CentralTable[n]
    /\ total' = total + central'
    /\ pc' = "returned"
    /\ UNCHANGED <<n, nproc, task, results, prev>>

\* lines 75, 81: n is even, the call returns
ReturnEven ==
    /\ pc = "joined"
    /\ n % 2 = 0
    /\ pc' = "returned"
    /\ UNCHANGED <<n, nproc, task, results, total, central, prev>>

CallInit ==
    /\ pc = "idle"
    /\ n = 0
    /\ nproc = 1
    /\ task = <<>>
    /\ results = <<>>
    /\ total = 0
    /\ central = 0
    /\ prev = <<>>

CallParked ==
    /\ pc = "off"
    /\ n = 0
    /\ nproc = 1
    /\ task = <<>>
    /\ results = <<>>
    /\ total = 0
    /\ central = 0
    /\ prev = <<>>

BTParked ==
    /\ bn = 0
    /\ bcol = 0
    /\ stack = <<>>
    /\ ret = 0
    /\ bpc = "off"

JitParked ==
    /\ jn = 0
    /\ jpc = "off"
    /\ jmask = {}

Init == CallInit /\ BTParked /\ JitParked

Next ==
    \/ \E k \in (-MinusN) .. MaxN, p \in 1 .. MaxProcs :
          Call(k, p) /\ UNCHANGED <<btvars, jitvars>>
    \/ StartTask /\ UNCHANGED <<btvars, jitvars>>
    \/ \E i \in DOMAIN task : FinishTask(i) /\ UNCHANGED <<btvars, jitvars>>
    \/ \E i \in DOMAIN task : RaiseTask(i) /\ UNCHANGED <<btvars, jitvars>>
    \/ \E i \in DOMAIN task : KillWorker(i) /\ UNCHANGED <<btvars, jitvars>>
    \/ MapReturn /\ UNCHANGED <<btvars, jitvars>>
    \/ MapRaise /\ UNCHANGED <<btvars, jitvars>>
    \/ CentralStart /\ UNCHANGED <<btvars, jitvars>>
    \/ CentralDone /\ UNCHANGED <<btvars, jitvars>>
    \/ ReturnEven /\ UNCHANGED <<btvars, jitvars>>

Spec == Init /\ [][Next]_vars

(***************************************************************************)
(* Reference count: the number of ways to put k queens on a k x k board,   *)
(* one per row, no two in one column or on one diagonal.  A placement is   *)
(* the sequence q of the columns chosen for rows 1 .. Len(q).              *)
(***************************************************************************)
Attacks(q, c) ==
    \E r \in 1 .. Len(q) :
        \/ q[r] = c
        \/ q[r] - c = (Len(q) + 1) - r
        \/ c - q[r] = (Len(q) + 1) - r

RECURSIVE Placements(_, _, _)
Placements(k, q, c) ==
    IF Len(q) = k THEN 1
    ELSE IF c = k THEN 0
    ELSE (IF Attacks(q, c) THEN 0 ELSE Placements(k, Append(q, c), 0))
         + Placements(k, q, c + 1)

QueensTable == [k \in 0 .. MaxN |-> Placements(k, <<>>, 0)]

\* C1: whenever a call with n >= 1 returns, the total is the exact number of
\* placements of n non-attacking queens on the n x n board.
C1_ExactCount ==
    (pc = "returned" /\ n >= 1) => total = QueensTable[n]

C1_Witness == pc = "returned" /\ n = 8 /\ total = 92 /\ Len(results) = 4

\* C2: a call on one of the smallest boards returns 1 for n = 0 and n = 1
\* and 0 for n = 2 and n = 3.
C2_SmallBoards ==
    (pc = "returned" /\ n \in 0 .. 3) => total = (IF n <= 1 THEN 1 ELSE 0)

\* C3: a call with a negative n ends in an error; it never returns a count.
C3_NegativeFails ==
    n < 0 => pc # "returned"

\* a half-task has raised, or its process was killed
AbnormalTask == \E i \in DOMAIN task : task[i] \in {"raised", "lost"}

\* C4: once a half-task has ended abnormally (it raised, or its process was
\* killed) the call does not return a total, and it either has failed or
\* can still take a step towards failing: it is never stuck waiting.
C4_FailsAsOne ==
    AbnormalTask =>
        /\ pc # "returned"
        /\ pc = "failed" \/ ENABLED Next

\* the sum of the half-task counts and the total they give, from n alone
RECURSIVE HalfSum(_, _)
HalfSum(nn, c) ==
    IF c >= Half(nn) THEN 0 ELSE worker(<<nn, c>>) + HalfSum(nn, c + 1)

TotalOf == [k \in (-MinusN) .. MaxN |->
              2 * HalfSum(k, 0)
              + (IF k >= 1 /\ k % 2 = 1 THEN worker(<<k, Half(k)>>) ELSE 0)]

\* C5: the returned total is 2 * (sum of the half-task counts) plus, for odd
\* n, the central count once; it is the same for every number of pool
\* processes and every order of the tasks, so a second call with the same
\* n returns what the first returned.
C5_Aggregate ==
    pc = "returned" =>
        /\ total = TotalOf[n]
        /\ total = 2 * SumSeq(results) + (IF n % 2 = 1 THEN central ELSE 0)
        /\ (prev # <<>> /\ prev[1] = n) => prev[2] = total

C5_Witness ==
    /\ pc = "returned" /\ n = 7 /\ nproc = 2 /\ total = 40
    /\ prev = <<7, 40>>

\* C8: while the central run is under way, and when the call has returned,
\* every half-task has handed its result back: none is queued or running.
C8_JoinBeforeCentral ==
    pc \in {"central", "returned"} =>
        \A i \in DOMAIN task : task[i] = "done"

C8_Witness == pc = "central" /\ n = 7 /\ Len(task) = 3 /\ nproc = 2

(***************************************************************************)
(* One run of worker((bn, bcol)), with the recursion of backtrack          *)
(* (src/DFS.py 19-33) unfolded: stack holds one frame per call of          *)
(* backtrack that has not returned yet, the innermost last.  A frame is    *)
(* at "entry" until line 19 has been decided, then in its "loop".          *)
(***************************************************************************)
Frame(row, cols, majors, minors) ==
    [row |-> row, cols |-> cols, majors |-> majors, minors |-> minors,
     available_positions |-> 0, count |-> 0, at |-> "entry"]

Top == stack[Len(stack)]

Pop == SubSeq(stack, 1, Len(stack) - 1)

\* the innermost call returns v: to its caller, which adds it to its count
\* (line 26), or to worker when it was the outermost call (line 49)
Return(v) ==
    IF Len(stack) = 1
    THEN /\ stack' = <<>>
         /\ ret' = v
         /\ bpc' = "done"
    ELSE /\ stack' = [Pop EXCEPT ![Len(stack) - 1].count = @ + v]
         /\ ret' = v
         /\ bpc' = bpc

\* lines 47-49: worker seeds the first call of backtrack
BTWorker ==
    /\ bpc = "start"
    /\ stack' = <<Frame(1, SeedCols(bcol), SeedMajors(bcol), SeedMinors(bcol))>>
    /\ bpc' = "run"
    /\ UNCHANGED <<bn, bcol, ret>>

\* lines 19-20: row == n, return 1
BTBase ==
    /\ bpc = "run"
    /\ Top.at = "entry"
    /\ BaseCase(bn, Top.row)
    /\ Return(1)
    /\ UNCHANGED <<bn, bcol>>

\* lines 21-22: the free columns of the row; count = 0
BTMask ==
    /\ bpc = "run"
    /\ Top.at = "entry"
    /\ ~BaseCase(bn, Top.row)
    /\ stack' = [stack EXCEPT ![Len(stack)] =
                    [Top EXCEPT !.available_positions =
                                    Available(bn, Top.cols, Top.majors,
                                              Top.minors),
                                !.count = 0,
                                !.at = "loop"]]
    /\ UNCHANGED <<bn, bcol, ret, bpc>>

\* lines 23-32: one iteration of the loop, up to the nested call
BTRecurse ==
    /\ bpc = "run"
    /\ Top.at = "loop"
    /\ Top.available_positions # 0
    /\ LET position == LowBit(Top.available_positions)
       IN  stack' = Append(
               [stack EXCEPT ![Len(stack)].available_positions = @ - position],
               Frame(NextRow(Top.row),
                     NextCols(Top.cols, position),
                     NextMajors(Top.majors, position),
                     NextMinors(Top.minors, position)))
    /\ UNCHANGED <<bn, bcol, ret, bpc>>

\* lines 23, 33: the loop is over, return count
BTLoopExit ==
    /\ bpc = "run"
    /\ Top.at = "loop"
    /\ Top.available_positions = 0
    /\ Return(Top.count)
    /\ UNCHANGED <<bn, bcol>>

BTInit ==
    /\ bn \in 1 .. MaxBoard
    /\ bcol \in 0 .. bn - 1
    /\ stack = <<>>
    /\ ret = 0
    /\ bpc = "start"

BTNext ==
    \/ BTWorker /\ UNCHANGED <<callvars, jitvars>>
    \/ BTBase /\ UNCHANGED <<callvars, jitvars>>
    \/ BTMask /\ UNCHANGED <<callvars, jitvars>>
    \/ BTRecurse /\ UNCHANGED <<callvars, jitvars>>
    \/ BTLoopExit /\ UNCHANGED <<callvars, jitvars>>

BTStart == BTInit /\ CallParked /\ JitParked

BTSpec == BTStart /\ [][BTNext]_vars

FairBTSpec == BTSpec /\ WF_vars(BTNext)

RECURSIVE PopCount(_)
PopCount(x) == IF x = 0 THEN 0 ELSE (x % 2) + PopCount(x \div 2)

\* C6: for n >= 2 and a first-queen column c < n // 2, worker((n, c))
\* returns what worker((n, n - 1 - c)) returns.
C6_MirrorSymmetry ==
    (bpc = "done" /\ bn >= 2 /\ bcol < Half(bn)) =>
        ret = worker(<<bn, bn - 1 - bcol>>)

C6_Witness == bpc = "done" /\ bn = 6 /\ bcol = 1 /\ ret = 1

\* C9: in every call of backtrack of a worker run, cols has exactly row
\* bits set, all of them in positions 0 .. n-1.
C9_ColsCountRows ==
    \A d \in DOMAIN stack :
        /\ stack[d].cols >= 0
        /\ PopCount(stack[d].cols) = stack[d].row
        /\ stack[d].cols < Pow2(bn)

C9_Witness ==
    /\ bn = 6
    /\ Len(stack) = 6
    /\ Top.row = 6
    /\ PopCount(Top.cols) = 6

\* C10: a worker run never nests more than n calls of backtrack, the call
\* at nesting depth d being the one for row d (row grows by 1 per level),
\* and the run ends, handing back a count.
C10_BoundedDepthTerminates ==
    /\ [](/\ Len(stack) <= bn
          /\ \A d \in DOMAIN stack : stack[d].row = d)
    /\ <>(bpc = "done" /\ ret \in Nat)

C10_Witness ==
    /\ bn = 5
    /\ Len(stack) = 5
    /\ Top.at = "entry"
    /\ bcol = 2

\* the stepped run and the recursive operator are the same function
StepsAgree == bpc = "done" => ret = worker(<<bn, bcol>>)

\* a call that returns hands back what the sequential reading computes
ReturnAgrees == pc = "returned" => total = count_n_queens_parallel(n)

(***************************************************************************)
(* The board mask of the @njit-compiled backtrack (src/Genetic.py 7-8,     *)
(* 24).  Called with Python ints, the compiled function has int64          *)
(* parameters, so 1 << n and (1 << n) - 1 are int64 operations.  An int64  *)
(* is modelled by the set of the positions of its 1 bits, 0 .. 63; bit 63  *)
(* is the sign.  The left shift is the machine's: a shift count of 64 or   *)
(* more is undefined in the compiled code, and the builds either use the   *)
(* count's low six bits (the x86-64 and AArch64 shift instructions) or     *)
(* shift every bit out.                                                    *)
(***************************************************************************)
WordBits == 64
JitMaxN  == 100   \* the largest board size main() passes (Genetic.py 88)

Int64Shl(x, k) ==
    IF k < WordBits
    THEN {{i + k : i \in {j \in x : j + k < WordBits}}}
    ELSE {{i + (k % WordBits) : i \in {j \in x : j + (k % WordBits) < WordBits}},
          {}}

\* x - 1 on 64 bits: borrow through the low zero bits; 0 - 1 is all ones
Int64Dec(x) ==
    IF x = {} THEN 0 .. WordBits - 1
    ELSE LET m == CHOOSE i \in x : \A j \in x : i <= j
         IN  (x \ {m}) \cup (0 .. m - 1)

\* the 1 bits of the Python int (1 << k) - 1
ExactMaskBits(k) == 0 .. k - 1

JitShift ==                                  \* 1 << n
    /\ jpc = "start"
    /\ jmask' \in Int64Shl({0}, jn)
    /\ jpc' = "shifted"
    /\ UNCHANGED jn

JitDec ==                                    \* (1 << n) - 1
    /\ jpc = "shifted"
    /\ jmask' = Int64Dec(jmask)
    /\ jpc' = "masked"
    /\ UNCHANGED jn

JitInit ==
    /\ jn \in 0 .. JitMaxN
    /\ jpc = "start"
    /\ jmask = {}

JitStart == JitInit /\ CallParked /\ BTParked

JitNext ==
    \/ JitShift /\ UNCHANGED <<callvars, btvars>>
    \/ JitDec /\ UNCHANGED <<callvars, btvars>>

JitSpec == JitStart /\ [][JitNext]_vars

\* C7: for every board size n, also beyond the 64 bits of a machine word,
\* the compiled backtrack holds the board mask (1 << n) - 1 untruncated:
\* its 1 bits are exactly the positions 0 .. n-1.
C7_MaskUntruncated ==
    jpc = "masked" => jmask = ExactMaskBits(jn)

=============================================================================
